---- MODULE Spec2Model ----
(***************************************************************************)
(* The conversational task-command agent of the todo application:         *)
(* MCPStorage (the Task Store), the six agent tools, ConversationMemory   *)
(* and its session manager, TodoAgent.processMessage and the chat         *)
(* handler's sendMessage.                                                  *)
(*                                                                         *)
(* JavaScript runs one callback at a time, so every action below is the   *)
(* code between two suspension points (an await on file or network I/O).  *)
(* Strings are TLA+ strings of the real length; a task id stands for the  *)
(* UUID that randomUUID() returned.                                        *)
(***************************************************************************)
EXTENDS Integers, Sequences, FiniteSets, TLC

----------------------------------------------------------------------------
(* Bounds of the model *)

MaxTasks == 2
MaxOps == 2
MaxClock == 1
MaxTurns == 2
MaxSessions == 101
MaxMessages == 52
MaxPromptMessages == 12
MaxReferences == 6
MaxConversationTurns == 26

----------------------------------------------------------------------------
(* Values *)

\* JavaScript's undefined, for an optional field that is absent.
UNDEF == "<undefined>"

\* A string of n characters.
RECURSIVE Rep(_)
Rep(n) ==
    IF n = 0 THEN ""
    ELSE IF n % 2 = 0 THEN Rep(n \div 2) \o Rep(n \div 2)
    ELSE "x" \o Rep(n - 1)

TitleMax == 200
DescriptionMax == 2000

TaskStatusSchema == {"pending", "completed"}
TaskPrioritySchema == {"low", "medium", "high"}

DefaultUser == "default-user"
Users == {"u1", "u2"}

\* generateText(..., maxSteps: 5): the model calls one turn may make.
maxSteps == 5

TaskIds == 1..MaxTasks
OpIds == 1..MaxOps
\* The calls of a turn that runs to the step limit.
CallIds == OpIds \cup 1..(maxSteps + 1)
TurnIds == 1..MaxTurns

\* The wall clock when the store is built, in hours since 1970-01-01T00:00Z:
\* 2026-11-04T15:00Z.
Epoch == 20761 * 24 + 15

\* The time zones of the host: UTC, and New York (UTC-5).
TimezoneOffsets == {0, -5}

NoTask == [id |-> 0]
NoFields == [k \in {} |-> UNDEF]

\* x || y of JavaScript, for strings.
OrElse(x, y) == IF x = UNDEF \/ x = "" THEN y ELSE x

\* payload.f of JavaScript: undefined when the key is absent.
Field(payload, f) == IF f \in DOMAIN payload THEN payload[f] ELSE UNDEF

----------------------------------------------------------------------------
(* schema.ts *)

TitleValid(title) == title # UNDEF /\ Len(title) >= 1 /\ Len(title) <= TitleMax

DescriptionValid(description) ==
    description = UNDEF \/ Len(description) <= DescriptionMax

PriorityValid(priority) == priority = UNDEF \/ priority \in TaskPrioritySchema

StatusValid(status) == status = UNDEF \/ status \in TaskStatusSchema

\* TaskSchema with a title that may be empty: z.string().max(200).
TaskSchemaAcceptsEmptyTitle(task) ==
    /\ task.title # UNDEF /\ Len(task.title) <= TitleMax
    /\ DescriptionValid(task.description)
    /\ PriorityValid(task.priority)
    /\ StatusValid(task.status)

\* TaskSchema.parse succeeds on this task.
TaskSchemaAccepts(task) ==
    /\ TitleValid(task.title)
    /\ DescriptionValid(task.description)
    /\ PriorityValid(task.priority)
    /\ StatusValid(task.status)

\* The value TaskSchema.parse returns: the task with the defaults filled in.
TaskSchemaParse(task) ==
    [task EXCEPT !.priority = IF @ = UNDEF THEN "medium" ELSE @,
                 !.status = IF @ = UNDEF THEN "pending" ELSE @]

\* CreateTaskPayloadSchema.parse succeeds on these parameters.
CreateTaskPayloadAccepts(params) ==
    /\ TitleValid(Field(params, "title"))
    /\ DescriptionValid(Field(params, "description"))
    /\ PriorityValid(Field(params, "priority"))

\* UpdateTaskPayloadSchema.parse succeeds on these parameters.
UpdateTaskPayloadAccepts(params) ==
    /\ ("title" \in DOMAIN params => TitleValid(params.title))
    /\ DescriptionValid(Field(params, "description"))
    /\ PriorityValid(Field(params, "priority"))
    /\ StatusValid(Field(params, "status"))

----------------------------------------------------------------------------
(* State *)

VARIABLES
    tasksMap,    \* MCPStorage.tasksMap: task id -> Task
    disk,        \* the files <dataDir>/<id>.json: task id -> Task
    nextUuid,    \* the next id randomUUID() hands out
    now,         \* the wall clock read by new Date(): hours since the store was built
    timezoneOffset, \* the host's time zone: local time minus UTC, in hours
    ops,         \* the store and tool calls: in flight, or returned
    deletedOk,   \* history: ids whose deleteTask call has returned normally
    writes,      \* history: per task id, the calls that ran tasksMap.set on it after its creation
    turns,       \* the sendMessage calls: not started, in flight, or returned
    memory,      \* ConversationSessionManager.sessions: key -> ConversationMemory
    added,       \* history: per key, every message addMessage was called with
    chatSessions, \* ChatKitHandler.sessions: session id -> ChatSession
    generated    \* how many session ids generateSessionId() has handed out

storeVars == <<tasksMap, disk, nextUuid, ops, deletedOk, writes>>
agentVars == <<turns, memory, added, chatSessions, generated>>
vars ==
    <<tasksMap, disk, nextUuid, now, timezoneOffset, ops, deletedOk, writes,
      turns, memory, added, chatSessions, generated>>

\* No statistics: the result of a call that computes none.
NoStats == [total |-> 0, pending |-> 0, completed |-> 0, overdue |-> 0]

NoResult ==
    [status |-> "none", error |-> "", task |-> NoTask, tasks |-> <<>>, stats |-> NoStats]

IdleOp ==
    [pc |-> "idle", via |-> "", kind |-> "", turn |-> 0, caller |-> "",
     userId |-> "", taskId |-> 0, params |-> NoFields, payload |-> NoFields,
     existing |-> NoTask, validated |-> NoTask, result |-> NoResult]

\* Map.set(key, value)
MapSet(map, key, value) ==
    [k \in DOMAIN map \cup {key} |-> IF k = key THEN value ELSE map[k]]

\* Map.delete(key)
MapDelete(map, key) == [k \in DOMAIN map \ {key} |-> map[k]]

\* Map.get(key) || null
MapGet(map, key) == IF key \in DOMAIN map THEN map[key] ELSE NoTask

----------------------------------------------------------------------------
(* How a call ends *)

\* A value returned by the call: a store method's return value, or the
\* {success: true, ...} envelope of a tool.
Returned(task, tasks) ==
    [status |-> "ok", error |-> "", task |-> task, tasks |-> tasks, stats |-> NoStats]

\* The value getTaskStats returns, and the envelope of list_tasks, which has
\* the tasks and the statistics.
ReturnedStats(tasks, stats) ==
    [status |-> "ok", error |-> "", task |-> NoTask, tasks |-> tasks, stats |-> stats]

\* An error thrown inside the store, or inside the try block of a tool: a store
\* call propagates it to its caller, a tool's catch turns it into
\* {success: false, error}.
Failed(op, error) ==
    [status |-> IF op.via = "tool" THEN "error" ELSE "raised",
     error |-> error, task |-> NoTask, tasks |-> <<>>, stats |-> NoStats]

\* An error thrown outside any try block: it leaves the call as an exception.
Raised(error) ==
    [status |-> "raised", error |-> error, task |-> NoTask, tasks |-> <<>>,
     stats |-> NoStats]

Finish(op, result) == [op EXCEPT !.pc = "done", !.result = result]

\* Calls are numbered in the order they start.
CanStart(o) ==
    /\ ops[o].pc = "idle"
    /\ \A p \in CallIds : p < o => ops[p].pc # "idle"

----------------------------------------------------------------------------
(* MCPStorage *)

\* createTask that gives every new task the priority 'medium'.
NewTaskIgnoresPriority(id, userId, payload) ==
    [id |-> id,
     title |-> Field(payload, "title"),
     description |-> Field(payload, "description"),
     due_date |-> Field(payload, "due_date"),
     priority |-> "medium",
     status |-> "pending",
     created_at |-> now,
     updated_at |-> now,
     user_id |-> userId,
     tags |-> IF "tags" \in DOMAIN payload THEN payload.tags ELSE <<>>]

\* The task object createTask builds before it validates it.
NewTask(id, userId, payload) ==
    [id |-> id,
     title |-> Field(payload, "title"),
     description |-> Field(payload, "description"),
     due_date |-> Field(payload, "due_date"),
     priority |-> OrElse(Field(payload, "priority"), "medium"),
     status |-> "pending",
     created_at |-> now,
     updated_at |-> now,
     user_id |-> userId,
     tags |-> IF "tags" \in DOMAIN payload THEN payload.tags ELSE <<>>]

\* A merge that puts the priority back to 'medium' when the update has none.
SpreadResetsPriority(existing, updates) ==
    [k \in DOMAIN existing |->
        IF k \in DOMAIN updates THEN updates[k]
        ELSE IF k = "priority" THEN "medium" ELSE existing[k]]

\* { ...existing, ...updates }: the supplied keys replace the existing ones.
Spread(existing, updates) ==
    [k \in DOMAIN existing |->
        IF k \in DOMAIN updates THEN updates[k] ELSE existing[k]]

\* updateTask that toggles the status: a completed task that is completed
\* again becomes pending.
UpdatedTaskTogglesStatus(existing, updates) ==
    [Spread(existing, updates) EXCEPT
        !.updated_at = now,
        !.status = IF existing.status = "completed" /\ @ = "completed"
                   THEN "pending" ELSE @]

\* The task object updateTask builds before it validates it.
UpdatedTask(existing, updates) ==
    [Spread(existing, updates) EXCEPT !.updated_at = now]

\* createTask up to its await: build, validate, start writing the file.
\* A payload the schema rejects throws before anything is stored.
CreateTaskStart(o, op) ==
    LET task == NewTask(nextUuid, op.userId, op.payload) IN
    IF TaskSchemaAccepts(task)
    THEN /\ ops' = [ops EXCEPT ![o] =
                [op EXCEPT !.pc = "persist", !.taskId = nextUuid,
                           !.validated = TaskSchemaParse(task)]]
         /\ nextUuid' = nextUuid + 1
    ELSE /\ ops' = [ops EXCEPT ![o] = Finish(op, Failed(op, "ValidationError"))]
         /\ UNCHANGED nextUuid

\* updateTask up to its await: read the cache, merge, validate, start writing.
UpdateTaskStart(o, op) ==
    LET existing == MapGet(tasksMap, op.taskId)
        updated == UpdatedTask(existing, op.payload)
    IN
    IF existing = NoTask
    THEN ops' = [ops EXCEPT ![o] = Finish(op, Failed(op, "NotFound"))]
    ELSE IF ~TaskSchemaAccepts(updated)
    THEN ops' = [ops EXCEPT ![o] =
            Finish([op EXCEPT !.existing = existing], Failed(op, "ValidationError"))]
    ELSE ops' = [ops EXCEPT ![o] =
            [op EXCEPT !.pc = "persist", !.existing = existing,
                       !.validated = TaskSchemaParse(updated)]]

\* deleteTask up to its await: drop the cache entry, start removing the file.
DeleteTaskStart(o, op) ==
    IF op.taskId \notin DOMAIN tasksMap
    THEN /\ ops' = [ops EXCEPT ![o] = Finish(op, Failed(op, "NotFound"))]
         /\ UNCHANGED tasksMap
    ELSE /\ tasksMap' = MapDelete(tasksMap, op.taskId)
         /\ ops' = [ops EXCEPT ![o] = [op EXCEPT !.pc = "unlink"]]

\* persistTask: fs.writeFile succeeds.
PersistTaskOk(o) ==
    /\ ops[o].pc = "persist"
    /\ disk' = MapSet(disk, ops[o].taskId, ops[o].validated)
    /\ ops' = [ops EXCEPT ![o].pc = "resume"]
    /\ UNCHANGED <<tasksMap, nextUuid, now, timezoneOffset, deletedOk, writes, agentVars>>

\* createTask or updateTask with tasksMap.set before the await of persistTask:
\* the write fails after the task was cached.
PersistTaskFailAfterCaching(o) ==
    /\ ops[o].pc = "persist"
    /\ tasksMap' = MapSet(tasksMap, ops[o].taskId, ops[o].validated)
    /\ ops' = [ops EXCEPT ![o] = Finish(ops[o], Failed(ops[o], "PersistError"))]
    /\ UNCHANGED <<disk, nextUuid, now, timezoneOffset, deletedOk, writes, agentVars>>

\* persistTask: fs.writeFile fails; the error is logged and thrown again.
PersistTaskFail(o) ==
    /\ ops[o].pc = "persist"
    /\ ops' = [ops EXCEPT ![o] = Finish(ops[o], Failed(ops[o], "PersistError"))]
    /\ UNCHANGED <<tasksMap, disk, nextUuid, now, timezoneOffset, deletedOk, writes, agentVars>>

\* createTask and updateTask after the await: cache the task and return it.
CacheAndReturn(o) ==
    LET op == ops[o]
        cached == op.validated
    IN
    /\ op.pc = "resume"
    /\ tasksMap' = MapSet(tasksMap, op.taskId, cached)
    /\ writes' = IF op.kind = "create" THEN writes
                 ELSE [writes EXCEPT ![op.taskId] = Append(@, o)]
    /\ ops' = [ops EXCEPT ![o] = Finish(op, Returned(cached, <<>>))]
    /\ UNCHANGED <<disk, nextUuid, now, timezoneOffset, deletedOk, agentVars>>

\* deleteTask after the await: the file is gone.
UnlinkOk(o) ==
    /\ ops[o].pc = "unlink"
    /\ disk' = MapDelete(disk, ops[o].taskId)
    /\ deletedOk' = deletedOk \cup {ops[o].taskId}
    /\ ops' = [ops EXCEPT ![o] = Finish(ops[o], Returned(ops[o].existing, <<>>))]
    /\ UNCHANGED <<tasksMap, nextUuid, now, timezoneOffset, writes, agentVars>>

\* deleteTask after the await: fs.unlink failed, which is only logged.
UnlinkFail(o) ==
    /\ ops[o].pc = "unlink"
    /\ deletedOk' = deletedOk \cup {ops[o].taskId}
    /\ ops' = [ops EXCEPT ![o] = Finish(ops[o], Returned(ops[o].existing, <<>>))]
    /\ UNCHANGED <<tasksMap, disk, nextUuid, now, timezoneOffset, writes, agentVars>>

\* The ISO 8601 strings the model uses as due dates, read field by field:
\* the calendar day (in days since 1970-01-01), the hour, and whether
\* the string is a date without a time.
IsoFields(iso) ==
    CASE iso = "2026-11-03" -> [day |-> 20760, hour |-> 0, dateOnly |-> TRUE]
      [] iso = "2026-11-04" -> [day |-> 20761, hour |-> 0, dateOnly |-> TRUE]
      [] iso = "2026-11-04T18:00:00" -> [day |-> 20761, hour |-> 18, dateOnly |-> FALSE]
      [] iso = "2026-11-11" -> [day |-> 20768, hour |-> 0, dateOnly |-> TRUE]

\* new Date(iso).getTime(), in hours since 1970-01-01T00:00Z: JavaScript reads
\* a date without a time as midnight UTC and a date-time without an offset as
\* local time.
DueTime(due_date) ==
    LET iso == IsoFields(due_date) IN
    iso.day * 24 + iso.hour - (IF iso.dateOnly THEN 0 ELSE timezoneOffset)

\* new Date().getTime(), in hours since 1970-01-01T00:00Z.
DateNow == Epoch + now

\* new Date(d.getFullYear(), d.getMonth(), d.getDate()): the local calendar
\* day of the instant, in days since 1970-01-01.
LocalDay(time) == (time + timezoneOffset) \div 24

PriorityOrder(priority) ==
    CASE priority = "high" -> 3
      [] priority = "medium" -> 2
      [] priority = "low" -> 1

\* The comparator listTasks sorts with.
CompareTasks(a, b) ==
    IF a.due_date # UNDEF /\ b.due_date # UNDEF
    THEN DueTime(a.due_date) - DueTime(b.due_date)
    ELSE PriorityOrder(b.priority) - PriorityOrder(a.priority)

\* Array.prototype.sort on a short array: a stable insertion sort.
RECURSIVE InsertTask(_, _)
InsertTask(sorted, task) ==
    IF sorted = <<>> THEN <<task>>
    ELSE IF CompareTasks(sorted[Len(sorted)], task) > 0
    THEN Append(InsertTask(SubSeq(sorted, 1, Len(sorted) - 1), task), sorted[Len(sorted)])
    ELSE Append(sorted, task)

RECURSIVE SortTasks(_)
SortTasks(tasks) ==
    IF tasks = <<>> THEN <<>>
    ELSE InsertTask(SortTasks(SubSeq(tasks, 1, Len(tasks) - 1)), tasks[Len(tasks)])

\* Array.from(tasksMap.values()): the cached tasks.
RECURSIVE TaskValues(_)
TaskValues(ids) ==
    IF ids = {} THEN <<>>
    ELSE LET last == CHOOSE i \in ids : \A j \in ids : j <= i IN
         Append(TaskValues(ids \ {last}), tasksMap[last])

\* The test of the date range filter: a task without a due date passes only
\* the range 'all'; the others compare the local day of the due date with the
\* local day of the clock.
InRange(task, range) ==
    IF task.due_date \in {UNDEF, ""} THEN range = "all"
    ELSE LET dueDay == LocalDay(DueTime(task.due_date))
             today == LocalDay(DateNow)
         IN CASE range = "today" -> dueDay = today /\ task.status = "pending"
              [] range = "upcoming" -> dueDay > today /\ task.status = "pending"
              [] range = "overdue" -> dueDay < today /\ task.status = "pending"
              [] range = "completed" -> task.status = "completed"
              [] range = "all" -> TRUE

\* listTasks without the filter on user_id.
RECURSIVE FilterTasksOfAnyUser(_, _, _)
FilterTasksOfAnyUser(tasks, userId, filter) ==
    IF tasks = <<>> THEN <<>>
    ELSE LET task == tasks[Len(tasks)]
             rest == FilterTasksOfAnyUser(SubSeq(tasks, 1, Len(tasks) - 1), userId, filter)
         IN
         IF /\ (Field(filter, "status") \notin {UNDEF, ""} => task.status = filter.status)
            /\ (Field(filter, "priority") \notin {UNDEF, ""} => task.priority = filter.priority)
            /\ (Field(filter, "range") \notin {UNDEF, ""} => InRange(task, filter.range))
         THEN Append(rest, task)
         ELSE rest

\* .filter(keep)
RECURSIVE FilterTasks(_, _, _)
FilterTasks(tasks, userId, filter) ==
    IF tasks = <<>> THEN <<>>
    ELSE LET task == tasks[Len(tasks)]
             rest == FilterTasks(SubSeq(tasks, 1, Len(tasks) - 1), userId, filter)
         IN
         IF /\ task.user_id = userId
            /\ (Field(filter, "status") \notin {UNDEF, ""} => task.status = filter.status)
            /\ (Field(filter, "priority") \notin {UNDEF, ""} => task.priority = filter.priority)
            /\ (Field(filter, "range") \notin {UNDEF, ""} => InRange(task, filter.range))
         THEN Append(rest, task)
         ELSE rest

\* listTasks: the tasks of userId that pass the status, priority and range
\* filters, sorted.  (No filter of the model carries a search text.)
ListTasksResult(userId, filter) ==
    SortTasks(FilterTasks(TaskValues(DOMAIN tasksMap), userId, filter))

\* getTask
GetTaskResult(taskId) == MapGet(tasksMap, taskId)

\* new Date(now.getFullYear(), now.getMonth(), now.getDate()).getTime(): the
\* start of the local calendar day of the clock, in hours since
\* 1970-01-01T00:00Z.
TodayTime == LocalDay(DateNow) * 24 - timezoneOffset

\* getTaskStats that counts every task with a past due date as overdue,
\* whatever its status.
GetTaskStatsOverdueOfAll(userId) ==
    LET tasks == ListTasksResult(userId, [range |-> "all"])
        pending == SelectSeq(tasks, LAMBDA t : t.status = "pending")
        overdue == SelectSeq(tasks,
                      LAMBDA t : /\ t.due_date \notin {UNDEF, ""}
                                 /\ DueTime(t.due_date) < TodayTime)
    IN [total |-> Len(tasks),
        pending |-> Len(pending),
        completed |-> Len(SelectSeq(tasks, LAMBDA t : t.status = "completed")),
        overdue |-> Len(overdue)]

\* getTaskStats: the counts over listTasks(userId, {range: 'all'}); overdue
\* are the pending tasks whose due date is before the start of today.
GetTaskStats(userId) ==
    LET tasks == ListTasksResult(userId, [range |-> "all"])
        pending == SelectSeq(tasks, LAMBDA t : t.status = "pending")
        overdue == SelectSeq(pending,
                      LAMBDA t : /\ t.due_date \notin {UNDEF, ""}
                                 /\ DueTime(t.due_date) < TodayTime)
    IN [total |-> Len(tasks),
        pending |-> Len(pending),
        completed |-> Len(SelectSeq(tasks, LAMBDA t : t.status = "completed")),
        overdue |-> Len(overdue)]

----------------------------------------------------------------------------
(* tools.ts: createAgentTools *)

\* The second argument the SDK hands to a tool's execute: the options of the
\* tool call. processMessage passes no user to generateText, so none is in it.
ToolExecutionOptions(toolCallId) == [toolCallId |-> toolCallId]

\* context?.userId || 'default-user'
ContextUserId(context) == OrElse(Field(context, "userId"), DefaultUser)

\* const { task_id, ...updates } = params
RestOf(params) == [k \in DOMAIN params \ {"task_id"} |-> params[k]]

\* The keys UpdateTaskPayloadSchema keeps; z.object strips the others.
UpdateTaskPayloadKeys == {"title", "description", "due_date", "priority", "status", "tags"}

\* The keys the update_task tool declares as its parameters.
UpdateToolParameterKeys == {"task_id", "title", "description", "due_date", "priority", "tags"}

Strip(params, keys) == [k \in DOMAIN params \cap keys |-> params[k]]

\* A call of one of the six tools, as execute sees it.
ToolCall(tool, params, t, caller) ==
    [IdleOp EXCEPT
        !.via = "tool", !.kind = tool, !.turn = t, !.caller = caller,
        !.userId = ContextUserId(ToolExecutionOptions(t)),
        !.taskId = IF "task_id" \in DOMAIN params THEN params.task_id ELSE 0,
        !.params = params,
        !.payload =
            IF tool = "update"
            THEN Strip(RestOf(Strip(params, UpdateToolParameterKeys)), UpdateTaskPayloadKeys)
            ELSE IF tool = "complete" THEN [status |-> "completed"]
            ELSE RestOf(params)]

\* A direct call of a store method.
StoreCall(method, userId, taskId, payload) ==
    [IdleOp EXCEPT
        !.via = "store", !.kind = method, !.caller = userId, !.userId = userId,
        !.taskId = taskId,
        !.payload = IF method = "complete" THEN [status |-> "completed"] ELSE payload]

\* The call from its first statement to its first suspension (or to its return,
\* when it never suspends).  create_task and update_task parse the payload
\* before their try block.
StartCall(o, op) ==
    CASE op.kind = "create" ->
            /\ UNCHANGED tasksMap
            /\ IF op.via = "tool" /\ ~CreateTaskPayloadAccepts(op.payload)
               THEN /\ ops' = [ops EXCEPT ![o] = Finish(op, Raised("ZodError"))]
                    /\ UNCHANGED nextUuid
               ELSE CreateTaskStart(o, op)
      [] op.kind = "update" ->
            /\ UNCHANGED <<tasksMap, nextUuid>>
            /\ IF op.via = "tool" /\ ~UpdateTaskPayloadAccepts(op.payload)
               THEN ops' = [ops EXCEPT ![o] = Finish(op, Raised("ZodError"))]
               ELSE UpdateTaskStart(o, op)
      [] op.kind = "complete" ->
            /\ UNCHANGED <<tasksMap, nextUuid>>
            /\ UpdateTaskStart(o, op)
      [] op.kind = "delete" ->
            /\ UNCHANGED nextUuid
            /\ LET task == GetTaskResult(op.taskId) IN
               IF op.via = "tool" /\ task = NoTask
               THEN /\ ops' = [ops EXCEPT ![o] = Finish(op, Failed(op, "Task not found"))]
                    /\ UNCHANGED tasksMap
               ELSE DeleteTaskStart(o, [op EXCEPT !.existing = task])
      [] op.kind = "get" ->
            /\ UNCHANGED <<tasksMap, nextUuid>>
            /\ LET task == GetTaskResult(op.taskId) IN
               ops' = [ops EXCEPT ![o] =
                    IF op.via = "tool" /\ task = NoTask
                    THEN Finish(op, Failed(op, "Task not found"))
                    ELSE Finish(op, Returned(task, <<>>))]
      [] op.kind = "list" ->
            /\ UNCHANGED <<tasksMap, nextUuid>>
            /\ ops' = [ops EXCEPT ![o] =
                    Finish(op,
                        IF op.via = "tool"
                        THEN ReturnedStats(ListTasksResult(op.userId, op.payload),
                                           GetTaskStats(op.userId))
                        ELSE Returned(NoTask, ListTasksResult(op.userId, op.payload)))]
      [] op.kind = "stats" ->
            /\ UNCHANGED <<tasksMap, nextUuid>>
            /\ ops' = [ops EXCEPT ![o] =
                    Finish(op, ReturnedStats(<<>>, GetTaskStats(op.userId)))]

----------------------------------------------------------------------------
(* Inputs *)

\* Payloads of createTask: valid ones, an empty and an oversize title, an
\* oversize description, a priority outside the enum.
CreatePayloads ==
    {[title |-> "Submit the report"],
     [title |-> ""],
     [title |-> Rep(TitleMax + 1)],
     [title |-> Rep(TitleMax), description |-> Rep(DescriptionMax)],
     [title |-> "Call mom", description |-> Rep(DescriptionMax + 1)],
     [title |-> "Call mom", priority |-> "urgent"]}

\* Valid payloads of createTask that use the optional fields.
FullCreatePayloads ==
    {[title |-> "Submit the report", description |-> "Quarterly numbers",
      due_date |-> "2026-11-04T18:00:00", priority |-> "high",
      tags |-> <<"work", "urgent">>],
     [title |-> "Call mom", due_date |-> "2026-11-11", priority |-> "low",
      tags |-> <<>>]}

\* Payloads of updateTask.
UpdatePayloads ==
    {[title |-> "Renamed"],
     [priority |-> "high"],
     [title |-> ""],
     [description |-> Rep(DescriptionMax + 1)],
     [status |-> "archived"]}

\* The filters of listTasks: none, or one of the date ranges.
ListFilters ==
    {NoFields} \cup
    {[range |-> range] : range \in {"today", "upcoming", "overdue", "completed", "all"}}

----------------------------------------------------------------------------
(* The store called directly *)

StoreCreateTask(o, userId, payload) ==
    /\ CanStart(o)
    /\ nextUuid <= MaxTasks
    /\ StartCall(o, StoreCall("create", userId, 0, payload))
    /\ UNCHANGED <<disk, now, timezoneOffset, deletedOk, writes, agentVars>>

StoreUpdateTask(o, taskId, updates) ==
    /\ CanStart(o)
    /\ StartCall(o, StoreCall("update", "", taskId, updates))
    /\ UNCHANGED <<disk, now, timezoneOffset, deletedOk, writes, agentVars>>

StoreCompleteTask(o, taskId) ==
    /\ CanStart(o)
    /\ StartCall(o, StoreCall("complete", "", taskId, NoFields))
    /\ UNCHANGED <<disk, now, timezoneOffset, deletedOk, writes, agentVars>>

StoreDeleteTask(o, taskId) ==
    /\ CanStart(o)
    /\ StartCall(o, StoreCall("delete", "", taskId, NoFields))
    /\ UNCHANGED <<disk, now, timezoneOffset, deletedOk, writes, agentVars>>

StoreGetTask(o, taskId) ==
    /\ CanStart(o)
    /\ StartCall(o, StoreCall("get", "", taskId, NoFields))
    /\ UNCHANGED <<disk, now, timezoneOffset, deletedOk, writes, agentVars>>

StoreListTasks(o, userId, filter) ==
    /\ CanStart(o)
    /\ StartCall(o, StoreCall("list", userId, 0, filter))
    /\ UNCHANGED <<disk, now, timezoneOffset, deletedOk, writes, agentVars>>

StoreGetTaskStats(o, userId) ==
    /\ CanStart(o)
    /\ StartCall(o, StoreCall("stats", userId, 0, NoFields))
    /\ UNCHANGED <<disk, now, timezoneOffset, deletedOk, writes, agentVars>>

\* An hour passes.
Tick ==
    /\ now < MaxClock
    /\ now' = now + 1
    /\ UNCHANGED <<storeVars, agentVars, timezoneOffset>>

----------------------------------------------------------------------------
(* memory.ts *)

maxMessages == 50

NewMemory(userId, sessionId) ==
    [userId |-> userId, sessionId |-> sessionId, messages |-> <<>>,
     referencedTasks |-> <<>>]

\* The key of a session in ConversationSessionManager.sessions.
SessionKey(userId, sessionId) == userId \o ":" \o sessionId

\* cleanupOldSessions removes sessions only once there are more than this
\* many. No code of the application calls it.
SessionCap == 100

\* ConversationSessionManager.getSession: the sessions map once the session
\* exists in it.
GetSession(sessions, userId, sessionId) ==
    IF SessionKey(userId, sessionId) \in DOMAIN sessions
    THEN sessions
    ELSE MapSet(sessions, SessionKey(userId, sessionId), NewMemory(userId, sessionId))

\* messages.slice(-n)
LastN(messages, n) ==
    IF Len(messages) > n
    THEN SubSeq(messages, Len(messages) - n + 1, Len(messages))
    ELSE messages

\* The message addMessage builds. The turn field is history: the sendMessage
\* call that added the message (0 when the memory is used directly).
NewMessage(role, content, t) ==
    [role |-> role, content |-> content, timestamp |-> now, turn |-> t]

\* addMessage with slice(0, maxMessages) in place of slice(-maxMessages).
AddMessageKeepsOldest(mem, role, content, t) ==
    LET pushed == Append(mem.messages, NewMessage(role, content, t)) IN
    [mem EXCEPT !.messages =
        IF Len(pushed) > maxMessages THEN SubSeq(pushed, 1, maxMessages) ELSE pushed]

\* ConversationMemory.addMessage
AddMessage(mem, role, content, t) ==
    LET pushed == Append(mem.messages, NewMessage(role, content, t)) IN
    [mem EXCEPT !.messages =
        IF Len(pushed) > maxMessages THEN LastN(pushed, maxMessages) ELSE pushed]

\* The history of the addMessage calls, one call longer.
Log(history, key, role, content, t) ==
    MapSet(history, key,
           Append(IF key \in DOMAIN history THEN history[key] ELSE <<>>,
                  NewMessage(role, content, t)))

\* ConversationMemory.recordTaskReference: Map.set keeps the place of a key
\* that is already present and appends a new one.
RecordTaskReference(mem, taskId, task, context) ==
    LET ref == [task_id |-> taskId, task |-> task, context |-> context,
                mentioned_at |-> now]
        refs == mem.referencedTasks
    IN [mem EXCEPT !.referencedTasks =
            IF \E i \in 1..Len(refs) : refs[i].task_id = taskId
            THEN [i \in 1..Len(refs) |-> IF refs[i].task_id = taskId THEN ref ELSE refs[i]]
            ELSE Append(refs, ref)]

\* null, where a reference is expected.
NoReference == [task_id |-> 0]

\* new Date(ref.mentioned_at).getTime(), in hours.
MentionedTime(ref) == Epoch + ref.mentioned_at

\* ConversationMemory.getLastMentionedTask: the loop over the references in
\* insertion order, which replaces `last` by a strictly later reference.
RECURSIVE LastMentioned(_, _, _, _)
LastMentioned(refs, i, last, lastTime) ==
    IF i > Len(refs) THEN last
    ELSE IF MentionedTime(refs[i]) > lastTime
         THEN LastMentioned(refs, i + 1, refs[i], MentionedTime(refs[i]))
         ELSE LastMentioned(refs, i + 1, last, lastTime)

GetLastMentionedTask(mem) == LastMentioned(mem.referencedTasks, 1, NoReference, 0)

\* String.toLowerCase(), on the strings of the model that have capitals; the
\* others are their own lower case.
ToLowerCase(s) ==
    CASE s = "Submit the report" -> "submit the report"
      [] s = "Review the report" -> "review the report"
      [] s = "Updated: Submit the report" -> "updated: submit the report"
      [] s = "Updated: Review the report" -> "updated: review the report"
      [] s = "Pay rent" -> "pay rent"
      [] s = "Updated: Pay rent" -> "updated: pay rent"
      [] OTHER -> s

\* The pairs <<s, sub>> of lower-case strings of the model where sub is a
\* proper, non-empty substring of s.
ProperSubstrings ==
    {<<"submit the report", "the report">>,
     <<"review the report", "the report">>,
     <<"updated: submit the report", "the report">>,
     <<"updated: review the report", "the report">>,
     <<"updated: submit the report", "submit the report">>,
     <<"updated: review the report", "review the report">>,
     <<"updated: pay rent", "pay rent">>}

\* String.includes(sub)
Includes(s, sub) == sub = "" \/ s = sub \/ <<s, sub>> \in ProperSubstrings

\* ConversationMemory.findTasksByDescription: the references whose context,
\* title or description contains the description, whatever the case.
FindTasksByDescription(mem, description) ==
    LET descLower == ToLowerCase(description) IN
    SelectSeq(mem.referencedTasks,
        LAMBDA ref :
            \/ Includes(ToLowerCase(ref.context), descLower)
            \/ Includes(ToLowerCase(ref.task.title), descLower)
            \/ /\ ref.task.description # UNDEF
               /\ Includes(ToLowerCase(ref.task.description), descLower))

\* msg.role.toUpperCase()
ToUpperCase(role) ==
    CASE role = "user" -> "USER"
      [] role = "assistant" -> "ASSISTANT"

\* `${msg.role.toUpperCase()}: ${msg.content}`
MessageLine(msg) == ToUpperCase(msg.role) \o ": " \o msg.content

\* `- "${ref.task.title}" (${ref.context})`
ReferenceLine(ref) == "- \"" \o ref.task.title \o "\" (" \o ref.context \o ")"

\* ConversationMemory.getContextForAgent: the lines of the string it builds.
GetContextForAgent(mem) ==
    LET recentMessages == LastN(mem.messages, 10)
        shown == LastN(mem.referencedTasks, 5)
    IN (IF Len(mem.messages) > 0
        THEN <<"Recent conversation:">>
             \o [i \in 1..Len(recentMessages) |-> MessageLine(recentMessages[i])]
        ELSE <<>>)
       \o
       (IF Len(mem.referencedTasks) > 0
        THEN <<"", "Recently mentioned tasks:">>
             \o [i \in 1..Len(shown) |-> ReferenceLine(shown[i])]
        ELSE <<>>)

\* The default of pruneOldReferences(maxAgeMs): 30 minutes, in milliseconds.
maxAgeMs == 1800000

\* now - new Date(ref.mentioned_at).getTime(), in milliseconds: the clock
\* counts hours.
AgeMs(ref) == (now - ref.mentioned_at) * 60 * 60 * 1000

\* .filter(keep) on the references.
RECURSIVE KeepFresh(_, _)
KeepFresh(refs, maxAge) ==
    IF refs = <<>> THEN <<>>
    ELSE LET ref == refs[Len(refs)]
             rest == KeepFresh(SubSeq(refs, 1, Len(refs) - 1), maxAge)
         IN IF AgeMs(ref) > maxAge THEN rest ELSE Append(rest, ref)

\* ConversationMemory.pruneOldReferences(maxAge). No code of the application
\* calls it.
PruneOldReferences(mem, maxAge) ==
    [mem EXCEPT !.referencedTasks = KeepFresh(@, maxAge)]

----------------------------------------------------------------------------
(* todo-agent.ts and the chat handler *)

IdleTurn ==
    [pc |-> "idle", userId |-> "", sessionId |-> "", sid |-> "", userMessage |-> "",
     steps |-> 0, cur |-> 0, executed |-> <<>>, toolResults |-> <<>>,
     message |-> "", tool_calls |-> <<>>, failed |-> FALSE]

\* Turns are numbered in the order they start.
CanSend(t) ==
    /\ turns[t].pc = "idle"
    /\ \A p \in DOMAIN turns : p < t => turns[p].pc # "idle"

\* generateSessionId(): an id no session has had.
GenerateSessionId == "session_" \o ToString(generated + 1)

\* ChatKitHandler.getOrCreateSession: the sessions map once the session exists.
GetOrCreateSession(sessions, userId, sid) ==
    IF sid \in DOMAIN sessions
    THEN sessions
    ELSE MapSet(sessions, sid,
            [session_id |-> sid, user_id |-> userId, created_at |-> now,
             messages |-> <<>>])

\* session.messages.push(message)
PushMessage(sessions, sid, role, content, t) ==
    [sessions EXCEPT ![sid].messages =
        Append(@, [role |-> role, content |-> content, timestamp |-> now, turn |-> t])]

\* sendMessage up to the first call of the model provider: the handler finds
\* the session and its memory and logs the user's message, processMessage
\* adds it to the memory and calls generateText.
SendMessage(t, userId, sessionId, userMessage) ==
    LET key == SessionKey(userId, sessionId)
        sid == OrElse(sessionId, GenerateSessionId)
    IN
    /\ CanSend(t)
    /\ generated' = IF sid = sessionId THEN generated ELSE generated + 1
    /\ chatSessions' = PushMessage(GetOrCreateSession(chatSessions, userId, sid),
                                   sid, "user", userMessage, t)
    /\ memory' = [GetSession(memory, userId, sessionId) EXCEPT
                    ![key] = AddMessage(@, "user", userMessage, t)]
    /\ added' = Log(added, key, "user", userMessage, t)
    /\ turns' = [turns EXCEPT ![t] =
            [IdleTurn EXCEPT !.pc = "running", !.userId = userId,
                             !.sessionId = sessionId, !.sid = sid,
                             !.userMessage = userMessage]]
    /\ UNCHANGED <<storeVars, now, timezoneOffset>>

\* The tool call of the turn's current step has returned a result.
ToolReturned(t) ==
    /\ turns[t].cur # 0
    /\ ops[turns[t].cur].pc = "done"
    /\ ops[turns[t].cur].result.status # "raised"

\* generateText without maxSteps: it calls the model after every tool result.
ModelCallInFlightUnbounded(t) ==
    /\ turns[t].pc = "running"
    /\ \/ turns[t].cur = 0
       \/ ToolReturned(t)

\* generateText is waiting for the model provider: for its first answer, or
\* for the answer to a tool result while steps remain.
ModelCallInFlight(t) ==
    /\ turns[t].pc = "running"
    /\ \/ turns[t].cur = 0
       \/ ToolReturned(t) /\ turns[t].steps < maxSteps

\* The provider answers with a tool call and generateText executes it.
ModelCallsTool(t, o, tool, params) ==
    /\ ModelCallInFlight(t)
    /\ CanStart(o)
    /\ tool = "create" => nextUuid <= MaxTasks
    /\ StartCall(o, ToolCall(tool, params, t, turns[t].userId))
    /\ turns' = [turns EXCEPT ![t].steps = @ + 1, ![t].cur = o,
                              ![t].executed = Append(@, o),
                              ![t].toolResults = <<o>>]
    /\ UNCHANGED <<disk, now, timezoneOffset, deletedOk, writes, memory, added, chatSessions, generated>>

\* The references sendMessage records for the tool calls of the response.
RECURSIVE RecordAll(_, _, _)
RecordAll(mem, tasks, i) ==
    IF i > Len(tasks) THEN mem
    ELSE RecordAll(RecordTaskReference(mem, tasks[i].id, tasks[i], tasks[i].title),
                   tasks, i + 1)

RECURSIVE UpdateReferences(_, _, _, _)
UpdateReferences(mem, tool_calls, i, userMessage) ==
    IF i > Len(tool_calls) THEN mem
    ELSE LET call == ops[tool_calls[i]]
             task == call.result.task
             next ==
                IF call.kind = "create" /\ task # NoTask
                THEN RecordTaskReference(mem, task.id, task, userMessage)
                ELSE IF call.kind \in {"complete", "update"} /\ task # NoTask
                THEN RecordTaskReference(mem, task.id, task, "Updated: " \o task.title)
                ELSE IF call.kind = "list" /\ call.result.status = "ok"
                THEN RecordAll(mem, call.result.tasks, 1)
                ELSE mem
         IN UpdateReferences(next, tool_calls, i + 1, userMessage)

\* The end of a turn in which processMessage returns the reply without adding
\* it to the memory.
EndTurnWithoutReply(t, message, tool_calls, failed) ==
    LET key == SessionKey(turns[t].userId, turns[t].sessionId) IN
    /\ memory' = [memory EXCEPT ![key] =
            UpdateReferences(@, tool_calls, 1, turns[t].userMessage)]
    /\ added' = added
    /\ chatSessions' = PushMessage(chatSessions, turns[t].sid, "assistant", message, t)
    /\ UNCHANGED generated
    /\ turns' = [turns EXCEPT ![t].pc = "done", ![t].message = message,
                              ![t].tool_calls = tool_calls, ![t].failed = failed]

\* The end of a turn: processMessage adds the reply to the memory and returns
\* it with the tool calls, sendMessage logs it and records the references.
EndTurn(t, message, tool_calls, failed) ==
    LET key == SessionKey(turns[t].userId, turns[t].sessionId) IN
    /\ memory' = [memory EXCEPT ![key] =
            UpdateReferences(AddMessage(@, "assistant", message, t),
                             tool_calls, 1, turns[t].userMessage)]
    /\ added' = Log(added, key, "assistant", message, t)
    /\ chatSessions' = PushMessage(chatSessions, turns[t].sid, "assistant", message, t)
    /\ UNCHANGED generated
    /\ turns' = [turns EXCEPT ![t].pc = "done", ![t].message = message,
                              ![t].tool_calls = tool_calls, ![t].failed = failed]

\* The tool_calls of sendMessage's response: the tool and the parameters of each
\* tool call processMessage returned.
ResponseToolCalls(t) ==
    [i \in 1..Len(turns[t].tool_calls) |->
        [tool |-> ops[turns[t].tool_calls[i]].kind,
         params |-> ops[turns[t].tool_calls[i]].params]]

\* ChatKitHandler.getSessionHistory: session?.messages || []
GetSessionHistory(sessionId) ==
    IF sessionId \in DOMAIN chatSessions THEN chatSessions[sessionId].messages ELSE <<>>

\* The reply of processMessage's catch block.
ErrorResponse(errorMessage) ==
    "I encountered an error processing your request: " \o errorMessage

\* generateText returns: the provider answered with text and no tool call, or
\* the last allowed step has run its tool call.  toolResults are those of the
\* last step.
GenerateTextReturns(t, text) ==
    /\ turns[t].pc = "running"
    /\ turns[t].cur = 0 \/ ToolReturned(t)
    /\ EndTurn(t, text,
               IF ToolReturned(t) /\ turns[t].steps = maxSteps
               THEN turns[t].toolResults ELSE <<>>,
               FALSE)
    /\ UNCHANGED <<storeVars, now, timezoneOffset>>

\* The provider call fails: generateText throws and the catch block replies.
ModelCallFails(t, errorMessage) ==
    /\ ModelCallInFlight(t)
    /\ EndTurn(t, ErrorResponse(errorMessage), <<>>, TRUE)
    /\ UNCHANGED <<storeVars, now, timezoneOffset>>

\* A tool's execute threw: generateText throws and the catch block replies.
ToolCallThrows(t) ==
    /\ turns[t].pc = "running"
    /\ turns[t].cur # 0
    /\ ops[turns[t].cur].pc = "done"
    /\ ops[turns[t].cur].result.status = "raised"
    /\ EndTurn(t, ErrorResponse(ops[turns[t].cur].result.error), <<>>, TRUE)
    /\ UNCHANGED <<storeVars, now, timezoneOffset>>

\* The provider never answers. generateText is called without an abortSignal
\* or a deadline, so the turn waits for ever.
ModelNeverAnswers(t) ==
    /\ ModelCallInFlight(t)
    /\ turns' = [turns EXCEPT ![t].pc = "hung"]
    /\ UNCHANGED <<storeVars, now, timezoneOffset, memory, added, chatSessions, generated>>

\* POST /chat/sessions: getOrCreateSession(userId) without a session id makes
\* a session under a generated id.
CreateSession(userId) ==
    /\ generated < MaxSessions
    /\ generated' = generated + 1
    /\ chatSessions' = GetOrCreateSession(chatSessions, userId, GenerateSessionId)
    /\ UNCHANGED <<storeVars, now, timezoneOffset, turns, memory, added>>

\* DELETE /chat/sessions/:sessionId: ChatKitHandler.endSession drops the chat
\* session and the memory of (userId, sessionId).
EndSession(userId, sessionId) ==
    /\ chatSessions' = MapDelete(chatSessions, sessionId)
    /\ memory' = MapDelete(memory, SessionKey(userId, sessionId))
    /\ added' = MapDelete(added, SessionKey(userId, sessionId))
    /\ UNCHANGED <<storeVars, now, timezoneOffset, turns, generated>>

\* A ConversationMemory used the way processMessage uses it, without the
\* handler: getSession(userId, sessionId).addMessage(role, content), a user
\* message first and then user messages and replies in turn.
MemoryAddMessage(userId, sessionId, content) ==
    LET key == SessionKey(userId, sessionId)
        sessions == GetSession(memory, userId, sessionId)
        messages == sessions[key].messages
        role == IF messages # <<>> /\ messages[Len(messages)].role = "user"
                THEN "assistant" ELSE "user"
    IN
    /\ key \in DOMAIN added => Len(added[key]) < MaxMessages
    /\ memory' = [sessions EXCEPT ![key] = AddMessage(@, role, content, 0)]
    /\ added' = Log(added, key, role, content, 0)
    /\ UNCHANGED <<storeVars, now, timezoneOffset, turns, chatSessions, generated>>

\* What the model may ask for: any of the six tools, with parameters that
\* satisfy the tool's declared parameter schema.
ToolRequests ==
    {[tool |-> "create", params |-> [title |-> "Submit the report"]],
     [tool |-> "create", params |-> [title |-> ""]],
     [tool |-> "list", params |-> NoFields]}
    \cup {[tool |-> "update", params |-> [task_id |-> id, title |-> "Renamed"]] : id \in TaskIds}
    \cup {[tool |-> "update", params |-> [task_id |-> id, priority |-> "high"]] : id \in TaskIds}
    \cup {[tool |-> "update", params |-> [task_id |-> 1, status |-> "completed"]]}
    \cup {[tool |-> "complete", params |-> [task_id |-> id]] : id \in TaskIds}
    \cup {[tool |-> "delete", params |-> [task_id |-> id]] : id \in TaskIds}
    \cup {[tool |-> "get", params |-> [task_id |-> id]] : id \in TaskIds}

\* What the model asks for in the turns that run to the step limit.
LongTurnRequests ==
    {[tool |-> "get", params |-> [task_id |-> 1]],
     [tool |-> "complete", params |-> [task_id |-> 1]]}

\* What the model asks for in the turns that follow up on tasks mentioned
\* before.
FollowUpRequests ==
    {[tool |-> "list", params |-> NoFields],
     [tool |-> "complete", params |-> [task_id |-> 1]],
     [tool |-> "delete", params |-> [task_id |-> 1]]}

\* The message of such a turn.
FollowUpMessages == {"the report"}

\* The sessions the client of the session routes ends.
EndedSessionIds == {"s1", "session_1"}

SessionIds == {"s1"}

\* The x-user-id headers and the session ids of a client that sends any
\* string: no session id at all, and ids with the separator of the memory's
\* key in them.
SeparatorUsers == {"u1", "u1:s1"}
AnySessionIds == {"", "s1", "s1:s1"}
UserMessages == {"please"}
ModelTexts == {"Done."}
ProviderErrors == {"Request timed out."}

\* The messages of the errors a provider call may throw.
RawProviderErrors ==
    {"Request timed out.",
     "Incorrect API key provided: sk-proj-abc. You can find your API key at https://platform.openai.com/account/api-keys."}

----------------------------------------------------------------------------
(* Specifications *)

\* A task file found in the data directory when the store is initialized.
StoredTask ==
    [id |-> 1, title |-> "Pay rent", description |-> UNDEF, due_date |-> UNDEF,
     priority |-> "medium", status |-> "pending", created_at |-> 0,
     updated_at |-> 0, user_id |-> "u1", tags |-> <<>>]

\* MCPStorage.initialize: the data directory is empty, or holds one task file,
\* which is validated and cached.
Initialized(files) ==
    /\ disk = files
    /\ tasksMap = [id \in {i \in DOMAIN files : TaskSchemaAccepts(files[i])} |->
                        TaskSchemaParse(files[id])]
    /\ nextUuid = Cardinality(DOMAIN files) + 1

\* The due dates of the task files: yesterday, today as a date and as a local
\* date-time, next week.
DueDates == {"2026-11-03", "2026-11-04", "2026-11-04T18:00:00", "2026-11-11"}

\* The task files with this id that users may have left in the data directory.
TaskFiles(id, title, users) ==
    {[StoredTask EXCEPT !.id = id, !.title = title, !.user_id = userId,
                        !.due_date = due_date, !.priority = priority,
                        !.status = status] :
        userId \in users, due_date \in DueDates \cup {UNDEF},
        priority \in {"low", "high"}, status \in TaskStatusSchema}

\* The data directories initialize() may find: empty, one task of u1, or that
\* task and a second one of either user.
DataDirs ==
    {NoFields}
    \cup {[id \in {1} |-> first] : first \in TaskFiles(1, "Pay rent", {"u1"})}
    \cup {[id \in {1, 2} |-> IF id = 1 THEN first ELSE second] :
            first \in TaskFiles(1, "Pay rent", {"u1"}),
            second \in TaskFiles(2, "Call mom", Users)}

\* The state once the handler, the agent and the store are built and the
\* store has loaded these files, for clients that send these turns.
InitWithTurns(files, turnIds) ==
    /\ Initialized(files)
    /\ now = 0
    /\ timezoneOffset \in TimezoneOffsets
    /\ ops = [o \in CallIds |-> IdleOp]
    /\ deletedOk = {}
    /\ writes = [id \in TaskIds |-> <<>>]
    /\ turns = [t \in turnIds |-> IdleTurn]
    /\ memory = NoFields
    /\ added = NoFields
    /\ chatSessions = NoFields
    /\ generated = 0

InitWith(files) == InitWithTurns(files, TurnIds)

Init == \E files \in {NoFields, [id \in {1} |-> StoredTask]} : InitWith(files)

StoreNext ==
    \/ \E o \in OpIds, userId \in Users, payload \in CreatePayloads :
            StoreCreateTask(o, userId, payload)
    \/ \E o \in OpIds, taskId \in TaskIds, updates \in UpdatePayloads :
            StoreUpdateTask(o, taskId, updates)
    \/ \E o \in OpIds, taskId \in TaskIds : StoreCompleteTask(o, taskId)
    \/ \E o \in OpIds, taskId \in TaskIds : StoreDeleteTask(o, taskId)
    \/ \E o \in OpIds, taskId \in TaskIds : StoreGetTask(o, taskId)
    \/ \E o \in OpIds : PersistTaskOk(o)
    \/ \E o \in OpIds : PersistTaskFail(o)
    \/ \E o \in OpIds : CacheAndReturn(o)
    \/ \E o \in OpIds : UnlinkOk(o)
    \/ \E o \in OpIds : UnlinkFail(o)

\* The store called by concurrent callers, within one tick of the clock.
StoreSpec == Init /\ [][StoreNext]_vars

\* The same, with time passing between the steps.
TimedStoreNext ==
    \/ StoreNext
    \/ Tick

TimedStoreSpec == Init /\ [][TimedStoreNext]_vars

Next ==
    \/ \E t \in TurnIds, userId \in Users, sessionId \in SessionIds,
          userMessage \in UserMessages :
            SendMessage(t, userId, sessionId, userMessage)
    \/ \E t \in TurnIds, o \in OpIds, call \in ToolRequests :
            ModelCallsTool(t, o, call.tool, call.params)
    \/ \E t \in TurnIds, text \in ModelTexts : GenerateTextReturns(t, text)
    \/ \E t \in TurnIds, errorMessage \in ProviderErrors :
            ModelCallFails(t, errorMessage)
    \/ \E t \in TurnIds : ToolCallThrows(t)
    \/ \E t \in TurnIds : ModelNeverAnswers(t)
    \/ \E o \in OpIds : PersistTaskOk(o)
    \/ \E o \in OpIds : PersistTaskFail(o)
    \/ \E o \in OpIds : CacheAndReturn(o)
    \/ \E o \in OpIds : UnlinkOk(o)
    \/ \E o \in OpIds : UnlinkFail(o)

Spec == Init /\ [][Next]_vars

\* The event loop runs every callback that is ready.
FairSpec == Spec /\ WF_vars(Next)

\* A client that waits for the reply to a message before it sends the next.
ClientSendsMessage(t, userId, sessionId, userMessage) ==
    /\ \A p \in DOMAIN turns : turns[p].pc \in {"idle", "done"}
    /\ SendMessage(t, userId, sessionId, userMessage)

\* The turns of such a client, which may run to the step limit, with time
\* passing.
LongTurnNext ==
    \/ \E t \in TurnIds, sessionId \in SessionIds, userMessage \in UserMessages :
            ClientSendsMessage(t, "u1", sessionId, userMessage)
    \/ \E t \in TurnIds, o \in CallIds, call \in LongTurnRequests :
            ModelCallsTool(t, o, call.tool, call.params)
    \/ \E t \in TurnIds, text \in ModelTexts : GenerateTextReturns(t, text)
    \/ \E t \in TurnIds, errorMessage \in ProviderErrors :
            ModelCallFails(t, errorMessage)
    \/ \E o \in CallIds : PersistTaskOk(o)
    \/ \E o \in CallIds : PersistTaskFail(o)
    \/ \E o \in CallIds : CacheAndReturn(o)
    \/ Tick

LongTurnSpec == Init /\ [][LongTurnNext]_vars

\* The two tasks made through the tools on an earlier day, which the store
\* loads from the data directory: the tools make every task for DefaultUser.
ReportTasks ==
    [id \in {1, 2} |->
        [StoredTask EXCEPT !.id = id, !.user_id = DefaultUser,
            !.title = IF id = 1 THEN "Submit the report" ELSE "Review the report"]]

FollowUpInit == InitWith(ReportTasks)

\* The turns of a client that talks about the report tasks: the turns may run
\* to the step limit, and the model lists, completes and deletes.
FollowUpNext ==
    \/ \E t \in TurnIds, sessionId \in SessionIds, userMessage \in FollowUpMessages :
            ClientSendsMessage(t, "u1", sessionId, userMessage)
    \/ \E t \in TurnIds, o \in CallIds, call \in FollowUpRequests :
            ModelCallsTool(t, o, call.tool, call.params)
    \/ \E t \in TurnIds, text \in ModelTexts : GenerateTextReturns(t, text)
    \/ \E o \in CallIds : PersistTaskOk(o)
    \/ \E o \in CallIds : CacheAndReturn(o)
    \/ \E o \in CallIds : UnlinkOk(o)

FollowUpSpec == FollowUpInit /\ [][FollowUpNext]_vars

\* The turns of a client whose model asks for a tool call as long as it is
\* asked, or answers with text.  The provider answers every call, and the
\* event loop runs every callback that is ready.
StepLimitNext ==
    \/ \E t \in TurnIds, sessionId \in SessionIds, userMessage \in UserMessages :
            ClientSendsMessage(t, "u1", sessionId, userMessage)
    \/ \E t \in TurnIds, o \in CallIds, call \in LongTurnRequests :
            ModelCallsTool(t, o, call.tool, call.params)
    \/ \E t \in TurnIds, text \in ModelTexts : GenerateTextReturns(t, text)
    \/ \E o \in CallIds : PersistTaskOk(o)
    \/ \E o \in CallIds : CacheAndReturn(o)

StepLimitSpec == Init /\ [][StepLimitNext]_vars /\ WF_vars(StepLimitNext)

\* Clients that send messages under any user id and session id, one message
\* at a time.
SharingNext ==
    \/ \E t \in TurnIds, userId \in SeparatorUsers, sessionId \in AnySessionIds,
          userMessage \in UserMessages :
            ClientSendsMessage(t, userId, sessionId, userMessage)
    \/ \E t \in TurnIds, text \in ModelTexts : GenerateTextReturns(t, text)
    \/ \E t \in TurnIds, errorMessage \in ProviderErrors :
            ModelCallFails(t, errorMessage)
    \/ \E userId \in SeparatorUsers, sessionId \in EndedSessionIds :
            EndSession(userId, sessionId)

SharingSpec == Init /\ [][SharingNext]_vars

\* The turns of a client whose provider answers with text or fails, with time
\* passing.
FailureNext ==
    \/ \E t \in TurnIds, sessionId \in SessionIds, userMessage \in UserMessages :
            ClientSendsMessage(t, "u1", sessionId, userMessage)
    \/ \E t \in TurnIds, text \in ModelTexts : GenerateTextReturns(t, text)
    \/ \E t \in TurnIds, errorMessage \in RawProviderErrors :
            ModelCallFails(t, errorMessage)
    \/ Tick

FailureSpec == Init /\ [][FailureNext]_vars

\* A long conversation in one session, one turn at a time: the provider
\* answers with text, and fails at most once.
ConversationNext ==
    \/ \E t \in 1..MaxConversationTurns, userMessage \in UserMessages :
            ClientSendsMessage(t, "u1", "s1", userMessage)
    \/ \E t \in 1..MaxConversationTurns, text \in ModelTexts :
            GenerateTextReturns(t, text)
    \/ \E t \in 1..MaxConversationTurns, errorMessage \in ProviderErrors :
            /\ \A p \in DOMAIN turns : ~turns[p].failed
            /\ ModelCallFails(t, errorMessage)

ConversationInit == InitWithTurns(NoFields, 1..MaxConversationTurns)

ConversationSpec == ConversationInit /\ [][ConversationNext]_vars

\* A client that opens sessions, talks in one and ends some, within one hour.
RegistryNext ==
    \/ CreateSession("u1")
    \/ \E sessionId \in EndedSessionIds : EndSession("u1", sessionId)
    \/ \E t \in TurnIds, sessionId \in SessionIds, userMessage \in UserMessages :
            ClientSendsMessage(t, "u1", sessionId, userMessage)
    \/ \E t \in TurnIds, text \in ModelTexts : GenerateTextReturns(t, text)

RegistrySpec == Init /\ [][RegistryNext]_vars

\* One conversation memory that fills up, with time passing.
MemoryNext ==
    \/ \E content \in UserMessages : MemoryAddMessage("u1", "s1", content)
    \/ Tick

MemorySpec == Init /\ [][MemoryNext]_vars

\* A task that comes up in a conversation.
MentionedTask(id) == [StoredTask EXCEPT !.id = id, !.title = "Task " \o ToString(id)]

\* A ConversationMemory used the way sendMessage uses it, without the
\* handler: getSession(userId, sessionId).recordTaskReference(task.id, task,
\* task.title).  Tasks are first mentioned in the order of their ids.
MemoryRecordTaskReference(userId, sessionId, taskId) ==
    LET key == SessionKey(userId, sessionId)
        sessions == GetSession(memory, userId, sessionId)
    IN
    /\ taskId <= Len(sessions[key].referencedTasks) + 1
    /\ memory' = [sessions EXCEPT ![key] =
            RecordTaskReference(@, taskId, MentionedTask(taskId),
                                MentionedTask(taskId).title)]
    /\ UNCHANGED <<storeVars, now, timezoneOffset, turns, added, chatSessions, generated>>

\* One conversation memory that takes a few messages and task references,
\* with time passing.
ContextNext ==
    \/ \E content \in UserMessages :
            /\ SessionKey("u1", "s1") \in DOMAIN added =>
                    Len(added[SessionKey("u1", "s1")]) < MaxPromptMessages
            /\ MemoryAddMessage("u1", "s1", content)
    \/ \E taskId \in 1..MaxReferences : MemoryRecordTaskReference("u1", "s1", taskId)
    \/ Tick

ContextSpec == Init /\ [][ContextNext]_vars

\* The store of a data directory with dated and undated tasks: u1 lists, and
\* completes the first task.
ListNext ==
    \/ \E o \in OpIds, filter \in ListFilters : StoreListTasks(o, "u1", filter)
    \/ \E o \in OpIds : StoreCompleteTask(o, 1)
    \/ \E o \in OpIds : PersistTaskOk(o)
    \/ \E o \in OpIds : PersistTaskFail(o)
    \/ \E o \in OpIds : CacheAndReturn(o)

ListInit == \E files \in DataDirs : InitWith(files)

ListSpec == ListInit /\ [][ListNext]_vars

\* The store of such a data directory: the users ask for their statistics,
\* and the first task is completed.
StatsNext ==
    \/ \E o \in OpIds, userId \in Users : StoreGetTaskStats(o, userId)
    \/ \E o \in OpIds : StoreCompleteTask(o, 1)
    \/ \E o \in OpIds : PersistTaskOk(o)
    \/ \E o \in OpIds : CacheAndReturn(o)

StatsSpec == ListInit /\ [][StatsNext]_vars

\* The data directories with a task of u1 and a task of u2, both of high
\* priority, overdue or undated.
OwnerDirs ==
    {files \in DataDirs :
        /\ DOMAIN files = {1, 2}
        /\ files[2].user_id = "u2"
        /\ \A id \in {1, 2} :
                /\ files[id].priority = "high"
                /\ files[id].due_date \in {"2026-11-03", UNDEF}}

\* The filters of listTasks, by range, by status or by priority.
OwnerFilters == ListFilters \cup {[status |-> "completed"], [priority |-> "high"]}

\* The store of such a data directory: each user lists and asks for
\* statistics.
OwnerNext ==
    \/ \E o \in OpIds, userId \in Users, filter \in OwnerFilters :
            StoreListTasks(o, userId, filter)
    \/ \E o \in OpIds, userId \in Users : StoreGetTaskStats(o, userId)

OwnerInit == \E files \in OwnerDirs : InitWith(files)

OwnerSpec == OwnerInit /\ [][OwnerNext]_vars

\* The store used to create tasks and to read them back.
CreateNext ==
    \/ \E o \in OpIds, userId \in Users,
          payload \in CreatePayloads \cup FullCreatePayloads :
            StoreCreateTask(o, userId, payload)
    \/ \E o \in OpIds, taskId \in TaskIds : StoreGetTask(o, taskId)
    \/ \E o \in OpIds, userId \in Users : StoreListTasks(o, userId, NoFields)
    \/ \E o \in OpIds : PersistTaskOk(o)
    \/ \E o \in OpIds : PersistTaskFail(o)
    \/ \E o \in OpIds : CacheAndReturn(o)

CreateSpec == Init /\ [][CreateNext]_vars

----------------------------------------------------------------------------
(* Properties *)

Done(o) == ops[o].pc = "done"

ToolDone(o) == Done(o) /\ ops[o].via = "tool"

\* C1: every task in the store has a title of 1 to 200 characters, a
\* description of at most 2000 characters if it has one, a priority among low,
\* medium and high, and a status among pending and completed, whatever create,
\* update, complete and delete calls, valid or not, have run.
C1_StoredTasksValid ==
    \A id \in DOMAIN tasksMap :
        /\ tasksMap[id].title # UNDEF
        /\ Len(tasksMap[id].title) >= 1
        /\ Len(tasksMap[id].title) <= 200
        /\ tasksMap[id].description # UNDEF => Len(tasksMap[id].description) <= 2000
        /\ tasksMap[id].priority \in {"low", "medium", "high"}
        /\ tasksMap[id].status \in {"pending", "completed"}

\* A create and an update were both rejected by the schema, and a task is stored.
C1_Witness ==
    /\ DOMAIN tasksMap # {}
    /\ \E o \in OpIds :
        Done(o) /\ ops[o].kind = "create" /\ ops[o].result.error = "ValidationError"
    /\ \E o \in OpIds :
        Done(o) /\ ops[o].kind = "update" /\ ops[o].result.error = "ValidationError"

\* C2: update_task, complete_task, delete_task and get_task succeed only on a
\* task owned by the user of the turn that called the tool.
C2_NoCrossOwnerAccess ==
    \A o \in OpIds :
        /\ ToolDone(o)
        /\ ops[o].kind \in {"update", "complete", "delete", "get"}
        /\ ops[o].result.status = "ok"
        => ops[o].result.task.user_id = ops[o].caller

\* C3: a task stored by create_task is owned by the user of the turn, and
\* list_tasks returns only tasks owned by the user of the turn.
C3_ToolsUseCallerOwner ==
    \A o \in OpIds :
        ToolDone(o) /\ ops[o].result.status = "ok" =>
            /\ ops[o].kind = "create" => ops[o].result.task.user_id = ops[o].caller
            /\ ops[o].kind = "list" =>
                \A i \in 1..Len(ops[o].result.tasks) :
                    ops[o].result.tasks[i].user_id = ops[o].caller

\* C4: a tool never ends with an exception; it returns {success: true, ...} or
\* {success: false, error}.
C4_ToolsNeverThrow ==
    \A o \in OpIds : ToolDone(o) => ops[o].result.status \in {"ok", "error"}

\* C5: in the memory of a session every user message is immediately followed
\* by the assistant reply of the same turn.
C5_TurnsSerialized ==
    \A key \in DOMAIN memory :
        \A i \in 1..(Len(memory[key].messages) - 1) :
            memory[key].messages[i].role = "user" =>
                /\ memory[key].messages[i + 1].role = "assistant"
                /\ memory[key].messages[i + 1].turn = memory[key].messages[i].turn

\* The task without its update timestamp.
Content(task) == [task EXCEPT !.updated_at = 0]

\* C6: when two updates are the only writes to a task, the stored task is what
\* the two updates give when run one after the other, in one of the two orders.
C6_ConcurrentUpdatesSerialized ==
    \A id \in DOMAIN tasksMap :
        Len(writes[id]) = 2 =>
            LET a == ops[writes[id][1]]
                b == ops[writes[id][2]]
                base == a.existing
            IN Content(tasksMap[id]) \in
                {Content(Spread(Spread(base, a.payload), b.payload)),
                 Content(Spread(Spread(base, b.payload), a.payload))}

\* C7: a task whose delete has returned is not in the store.
C7_DeletedStaysDeleted == \A id \in deletedOk : id \notin DOMAIN tasksMap

\* The turn ended in the catch block because a provider call failed.
ProviderFailure(turn) ==
    /\ turn.pc = "done"
    /\ turn.failed
    /\ turn.tool_calls = <<>>
    /\ \E e \in ProviderErrors : turn.message = ErrorResponse(e)

\* C8: a turn that ended through the provider-failure path executed no tool.
C8_FailedTurnRanNoTool ==
    \A t \in TurnIds : ProviderFailure(turns[t]) => turns[t].executed = <<>>

\* C9: when a turn ends through the provider-failure path, the memory of its
\* session ends with the user's message of the turn followed by the failure
\* message as an assistant message.
C9_FailureRecordedAfterUserMessage ==
    [][\A t \in TurnIds :
        turns[t].pc = "running" /\ ProviderFailure(turns'[t]) =>
            LET msgs == memory'[SessionKey(turns[t].userId, turns[t].sessionId)].messages
                n == Len(msgs)
            IN /\ n >= 2
               /\ msgs[n].role = "assistant"
               /\ msgs[n].content = turns'[t].message
               /\ msgs[n].turn = t
               /\ msgs[n - 1].role = "user"
               /\ msgs[n - 1].content = turns[t].userMessage
               /\ msgs[n - 1].turn = t]_vars

\* C10: every turn that has started eventually returns a reply.
C10_EveryTurnReturns ==
    \A t \in TurnIds : (turns[t].pc = "running") ~> (turns[t].pc = "done")

\* C11: when a turn builds the prompt context, which it does as it starts, the
\* memory of its session holds no task reference that was mentioned more than
\* 30 minutes before.
C11_NoStaleReferenceAtTurnStart ==
    [][\A t \in TurnIds :
        turns[t].pc = "idle" /\ turns'[t].pc = "running" =>
            LET mem == memory'[SessionKey(turns'[t].userId, turns'[t].sessionId)] IN
            \A i \in 1..Len(mem.referencedTasks) :
                (now' - mem.referencedTasks[i].mentioned_at) * 60 * 60 * 1000
                    <= 30 * 60 * 1000]_vars

\* C12: the chat handler and the session manager never hold more sessions than
\* the cap.
C12_SessionRegistryBounded ==
    /\ Cardinality(DOMAIN chatSessions) <= SessionCap
    /\ Cardinality(DOMAIN memory) <= SessionCap

\* C13: a memory that addMessage was called on n times holds the last
\* min(n, 50) of the n messages, in the order of the calls.
C13_LastFiftyMessagesKept ==
    \A key \in DOMAIN memory :
        LET n == IF key \in DOMAIN added THEN Len(added[key]) ELSE 0
            k == IF n < 50 THEN n ELSE 50
        IN /\ Len(memory[key].messages) = k
           /\ \A i \in 1..k : memory[key].messages[i] = added[key][n - k + i]

\* addMessage was called 52 times on a memory: the first two messages are gone.
C13_Witness ==
    \E key \in DOMAIN memory :
        /\ Len(added[key]) = 52
        /\ Len(memory[key].messages) = 50
        /\ memory[key].messages[1] = added[key][3]

ListReturns(o) ==
    ops[o].pc = "idle" /\ ops'[o].pc = "done" /\ ops'[o].kind = "list"

\* The tasks of a list result, as a set.
Listed(result) == {result.tasks[i] : i \in 1..Len(result.tasks)}

\* The stored tasks of a user.
TasksOf(userId) ==
    {tasksMap[id] : id \in {i \in DOMAIN tasksMap : tasksMap[i].user_id = userId}}

\* The calendar day a due date names, in days since 1970-01-01.
DueDay(task) == IsoFields(task.due_date).day

\* The calendar day of the clock in the time zone of the host.
Today == (Epoch + now + timezoneOffset) \div 24

\* C15: listTasks with range today, upcoming or overdue returns, each once,
\* the caller's pending tasks with a due date on the current calendar day,
\* after it, or before it; a task without a due date is in none of them.
C15_DateRangesExact ==
    [][\A o \in OpIds :
        /\ ListReturns(o)
        /\ Field(ops'[o].payload, "range") \in {"today", "upcoming", "overdue"}
        => LET range == ops'[o].payload.range
               expected ==
                 {task \in TasksOf(ops'[o].userId) :
                    /\ task.status = "pending"
                    /\ task.due_date # UNDEF
                    /\ \/ range = "today" /\ DueDay(task) = Today
                       \/ range = "upcoming" /\ DueDay(task) > Today
                       \/ range = "overdue" /\ DueDay(task) < Today}
           IN /\ Listed(ops'[o].result) = expected
              /\ Len(ops'[o].result.tasks) = Cardinality(expected)]_vars

\* C16: listTasks with range completed returns, each once, the caller's
\* completed tasks, with or without a due date.
C16_CompletedRangeExact ==
    [][\A o \in OpIds :
        ListReturns(o) /\ Field(ops'[o].payload, "range") = "completed"
        => LET expected ==
                 {task \in TasksOf(ops'[o].userId) : task.status = "completed"}
           IN /\ Listed(ops'[o].result) = expected
              /\ Len(ops'[o].result.tasks) = Cardinality(expected)]_vars

\* The day and hour a due date names, in hours.
DueHour(task) == IsoFields(task.due_date).day * 24 + IsoFields(task.due_date).hour

\* C17: in a list result no task without a due date comes before a task with
\* one, the tasks with a due date are in ascending order of it and the tasks
\* without are in descending order of priority.
C17_DatedFirstThenPriority ==
    \A o \in OpIds :
        Done(o) /\ ops[o].kind = "list" =>
            LET tasks == ops[o].result.tasks IN
            \A i, j \in 1..Len(tasks) :
                i < j =>
                    /\ ~(tasks[i].due_date = UNDEF /\ tasks[j].due_date # UNDEF)
                    /\ tasks[i].due_date # UNDEF /\ tasks[j].due_date # UNDEF
                        => DueHour(tasks[i]) <= DueHour(tasks[j])
                    /\ tasks[i].due_date = UNDEF /\ tasks[j].due_date = UNDEF
                        => PriorityOrder(tasks[i].priority) >= PriorityOrder(tasks[j].priority)

\* C18: a completeTask call that returns a task leaves the task completed; one
\* that found the task completed already, and that no other write has
\* overtaken, changes nothing in it but updated_at, and fails only if the file
\* write fails.
C18_CompletionIdempotent ==
    [][\A o \in OpIds :
        ops'[o].kind = "complete" /\ ops[o].pc # "done" /\ ops'[o].pc = "done" =>
            LET id == ops'[o].taskId
                read == ops'[o].existing
                again == read # NoTask /\ read.status = "completed"
            IN IF ops'[o].result.status = "ok"
               THEN /\ ops'[o].result.task.status = "completed"
                    /\ tasksMap'[id].status = "completed"
                    /\ again /\ id \in DOMAIN tasksMap /\ tasksMap[id] = read
                        => Content(tasksMap'[id]) = Content(tasksMap[id])
               ELSE again => ops'[o].result.error = "PersistError"]_vars

\* Two completeTask calls on the same task have returned it, the second
\* having found it completed.
C18_Witness ==
    \E o, p \in OpIds :
        /\ o # p
        /\ Done(o) /\ ops[o].kind = "complete" /\ ops[o].result.status = "ok"
        /\ Done(p) /\ ops[p].kind = "complete" /\ ops[p].result.status = "ok"
        /\ ops[o].taskId = ops[p].taskId
        /\ ops[p].existing.status = "completed"
        /\ ops[p].existing = ops[o].result.task

\* The task has the title, description, due date, priority and tags of the
\* payload (priority medium and no tags when the payload has none), and is
\* pending.
AsCreated(task, payload) ==
    /\ task.title = payload.title
    /\ task.description = Field(payload, "description")
    /\ task.due_date = Field(payload, "due_date")
    /\ task.priority = IF "priority" \in DOMAIN payload THEN payload.priority ELSE "medium"
    /\ task.tags = IF "tags" \in DOMAIN payload THEN payload.tags ELSE <<>>
    /\ task.status = "pending"

\* The payload breaks a rule of the create schema.
InvalidPayload(payload) ==
    \/ Len(payload.title) = 0
    \/ Len(payload.title) > 200
    \/ "description" \in DOMAIN payload /\ Len(payload.description) > 2000
    \/ "priority" \in DOMAIN payload /\ payload.priority \notin {"low", "medium", "high"}

\* C19: the task createTask returns, and the task a later getTask of its id
\* returns while nothing has updated it, have the fields of the payload; a
\* create with an invalid payload returns no task, stores none, and no list
\* result holds a task with an invalid title, description or priority.
C19_CreateGetRoundTrip ==
    /\ \A o \in OpIds :
        Done(o) /\ ops[o].kind = "create" =>
            IF InvalidPayload(ops[o].payload)
            THEN /\ ops[o].result.status # "ok"
                 /\ ops[o].taskId = 0
            ELSE ops[o].result.status = "ok" =>
                /\ AsCreated(ops[o].result.task, ops[o].payload)
                /\ \A p \in OpIds :
                    /\ Done(p) /\ ops[p].kind = "get"
                    /\ ops[p].taskId = ops[o].result.task.id
                    /\ ops[p].result.task # NoTask
                    /\ writes[ops[p].taskId] = <<>>
                    => /\ ops[p].result.task = ops[o].result.task
                       /\ AsCreated(ops[p].result.task, ops[o].payload)
    /\ \A o \in OpIds :
        Done(o) /\ ops[o].kind = "list" =>
            \A i \in 1..Len(ops[o].result.tasks) :
                ~InvalidPayload(ops[o].result.tasks[i])

\* A task created with all the optional fields was read back by getTask.
C19_Witness ==
    \E o, p \in OpIds :
        /\ Done(o) /\ ops[o].kind = "create" /\ ops[o].result.status = "ok"
        /\ "tags" \in DOMAIN ops[o].payload
        /\ ops[o].payload.tags = <<"work", "urgent">>
        /\ ops[o].payload.priority = "high"
        /\ Done(p) /\ ops[p].kind = "get"
        /\ ops[p].result.task = ops[o].result.task

C21_UpdateToolSetsStatus ==
    \A o \in CallIds :
        /\ ToolDone(o)
        /\ ops[o].kind = "update"
        /\ "status" \in DOMAIN ops[o].params
        /\ ops[o].params.status \in TaskStatusSchema
        /\ ops[o].result.status = "ok"
        => ops[o].result.task.status = ops[o].params.status

\* The tool invocations a turn executed, in execution order, each with its
\* tool, parameters and result.
Invocations(t) ==
    [i \in 1..Len(turns[t].executed) |->
        [tool |-> ops[turns[t].executed[i]].kind,
         params |-> ops[turns[t].executed[i]].params,
         result |-> ops[turns[t].executed[i]].result]]

\* C22: the tool_calls a successful turn returns are the tool invocations the
\* turn executed, all of them and in execution order, each with its tool,
\* parameters and result.
C22_ToolCallsComplete ==
    \A t \in TurnIds :
        turns[t].pc = "done" /\ ~turns[t].failed =>
            /\ turns[t].tool_calls = turns[t].executed
            /\ ResponseToolCalls(t) = Invocations(t)

\* The memory holds a reference to the task.
Referenced(mem, taskId) ==
    \E i \in 1..Len(mem.referencedTasks) : mem.referencedTasks[i].task_id = taskId

\* The memory holds a reference to the task, recorded with the context.
ReferencedWith(mem, taskId, context) ==
    \E i \in 1..Len(mem.referencedTasks) :
        /\ mem.referencedTasks[i].task_id = taskId
        /\ mem.referencedTasks[i].context = context

\* C23: when a turn ends without an error, the memory of its session holds,
\* for every create_task, update_task and complete_task of the turn that
\* succeeded, a reference to the task with the user's message of the turn as
\* context, and a reference to every task a list_tasks of the turn returned.
C23_TurnRecordsReferences ==
    [][\A t \in TurnIds :
        turns[t].pc = "running" /\ turns'[t].pc = "done" /\ ~turns'[t].failed =>
            LET mem == memory'[SessionKey(turns[t].userId, turns[t].sessionId)] IN
            \A i \in 1..Len(turns[t].executed) :
                LET call == ops[turns[t].executed[i]] IN
                /\ call.kind \in {"create", "update", "complete"}
                   /\ call.result.status = "ok"
                   => ReferencedWith(mem, call.result.task.id, turns[t].userMessage)
                /\ call.kind = "list" /\ call.result.status = "ok"
                   => \A j \in 1..Len(call.result.tasks) :
                        Referenced(mem, call.result.tasks[j].id)]_vars

\* The tasks the create_task calls of a turn created.
CreatedIn(t) ==
    {ops[turns[t].executed[i]].result.task.id :
        i \in {j \in 1..Len(turns[t].executed) :
                    /\ ops[turns[t].executed[j]].kind = "create"
                    /\ ops[turns[t].executed[j]].result.status = "ok"}}

\* C24: when a turn in which create_task succeeded ends without an error, the
\* last mentioned task of its session is a task the turn created.
C24_CreatedTaskIsLastMentioned ==
    [][\A t \in TurnIds :
        /\ turns[t].pc = "running" /\ turns'[t].pc = "done" /\ ~turns'[t].failed
        /\ CreatedIn(t) # {}
        => GetLastMentionedTask(
                memory'[SessionKey(turns[t].userId, turns[t].sessionId)]).task_id
           \in CreatedIn(t)]_vars

\* C25: a turn whose message matches more than one task reference of its
\* session executes no tool call.
C25_AmbiguousTurnCallsNoTool ==
    [][\A t \in TurnIds :
        turns'[t].steps > turns[t].steps =>
            Len(FindTasksByDescription(
                    memory[SessionKey(turns[t].userId, turns[t].sessionId)],
                    turns[t].userMessage)) <= 1]_vars

Range(seq) == {seq[i] : i \in 1..Len(seq)}

Min(a, b) == IF a < b THEN a ELSE b

\* C26: the prompt context shows the last 10 messages, and of the task
\* references it shows 5 (all, when there are fewer), none of them mentioned
\* earlier than a reference it leaves out.
C26_ContextShowsMostRecent ==
    \A key \in DOMAIN memory :
        LET mem == memory[key]
            lines == GetContextForAgent(mem)
            messages == mem.messages
            refs == mem.referencedTasks
            k == Min(10, Len(messages))
            Shown(ref) == ReferenceLine(ref) \in Range(lines)
        IN
        /\ messages # <<>> =>
                SubSeq(lines, 1, k + 1) =
                    <<"Recent conversation:">>
                    \o [i \in 1..k |-> MessageLine(messages[Len(messages) - k + i])]
        /\ Cardinality({i \in 1..Len(refs) : Shown(refs[i])}) = Min(5, Len(refs))
        /\ \A i, j \in 1..Len(refs) :
                Shown(refs[i]) /\ ~Shown(refs[j]) =>
                    refs[j].mentioned_at <= refs[i].mentioned_at

\* C27: the messages of one memory all come from turns of one user in one
\* session, the session being the one the turn's response names.
C27_MemoryNotShared ==
    \A key \in DOMAIN memory :
        \A i, j \in 1..Len(memory[key].messages) :
            LET a == turns[memory[key].messages[i].turn]
                b == turns[memory[key].messages[j].turn]
            IN a.userId = b.userId /\ a.sid = b.sid

\* C28: once delete_task has deleted a task, no memory resolves a reference
\* to it: the task is not the last mentioned task, not among the matches of a
\* description, and not in the prompt context.
C28_DeletedTaskNotResolved ==
    \A key \in DOMAIN memory, taskId \in deletedOk :
        taskId \notin DOMAIN tasksMap =>
            LET mem == memory[key]
                matches == UNION {Range(FindTasksByDescription(mem, description)) :
                                    description \in FollowUpMessages}
            IN
            /\ GetLastMentionedTask(mem).task_id # taskId
            /\ \A ref \in matches : ref.task_id # taskId
            /\ \A ref \in Range(mem.referencedTasks) :
                    ref.task_id = taskId =>
                        ReferenceLine(ref) \notin Range(GetContextForAgent(mem))

\* C29: a turn executes at most maxSteps = 5 tool calls, one per step; a turn
\* that has run its fifth step makes no further step and returns the model's
\* text; and every turn the provider keeps answering comes to its end.
C29_AtMostFiveSteps ==
    /\ [](\A t \in TurnIds :
            turns[t].steps <= maxSteps /\ Len(turns[t].executed) = turns[t].steps)
    /\ [][\A t \in TurnIds :
            turns[t].steps = maxSteps /\ turns'[t] # turns[t] =>
                /\ turns'[t].pc = "done"
                /\ turns'[t].executed = turns[t].executed
                /\ turns'[t].message \in ModelTexts]_vars
    /\ \A t \in TurnIds : (turns[t].pc = "running") ~> (turns[t].pc = "done")

\* A turn has ended after five tool calls, although a further call could
\* have been started.
C29_Witness ==
    \E t \in TurnIds, o \in CallIds :
        /\ turns[t].pc = "done"
        /\ turns[t].steps = maxSteps
        /\ turns[t].message \in ModelTexts
        /\ ops[o].pc = "idle"

\* The number of tasks of a list with the status.
CountStatus(tasks, status) ==
    Cardinality({i \in 1..Len(tasks) : tasks[i].status = status})

\* C30: the statistics getTaskStats returns for a user agree with listTasks
\* in the same state: total is the length of the list of range all, pending
\* and completed are the numbers of its tasks with that status and add up to
\* total, and overdue is the length of the list of range overdue.
C30_StatsAgreeWithList ==
    [][\A o \in OpIds :
        ops[o].pc = "idle" /\ ops'[o].pc = "done" /\ ops'[o].kind = "stats" =>
            LET stats == ops'[o].result.stats
                all == ListTasksResult(ops'[o].userId, [range |-> "all"])
                overdue == ListTasksResult(ops'[o].userId, [range |-> "overdue"])
            IN
            /\ stats.total = Len(all)
            /\ stats.pending = CountStatus(all, "pending")
            /\ stats.completed = CountStatus(all, "completed")
            /\ stats.total = stats.pending + stats.completed
            /\ stats.overdue = Len(overdue)]_vars

\* A user with a completed task and an overdue one has got statistics.
C30_Witness ==
    \E o \in OpIds :
        /\ Done(o)
        /\ ops[o].kind = "stats"
        /\ ops[o].result.stats.completed > 0
        /\ ops[o].result.stats.overdue > 0

\* C31: every stored task has updated_at >= created_at; as long as a task is
\* stored its created_at does not change and its updated_at does not
\* decrease.
C31_TimestampsMonotonic ==
    /\ [](\A id \in DOMAIN tasksMap :
            tasksMap[id].updated_at >= tasksMap[id].created_at)
    /\ [][\A id \in DOMAIN tasksMap \cap DOMAIN tasksMap' :
            /\ tasksMap'[id].created_at = tasksMap[id].created_at
            /\ tasksMap'[id].updated_at >= tasksMap[id].updated_at]_vars

\* C32: the reply of a turn that a provider failure aborted is one fixed
\* message: any two such turns have the same reply, whatever the error was.
C32_FailureReplyFixed ==
    \A a, b \in TurnIds :
        /\ turns[a].pc = "done" /\ turns[a].failed /\ turns[a].executed = <<>>
        /\ turns[b].pc = "done" /\ turns[b].failed /\ turns[b].executed = <<>>
        => turns[a].message = turns[b].message

\* C33: listTasks returns only tasks of the user it is called for, whatever
\* the filter, and getTaskStats counts only that user's tasks.
C33_ListAndStatsOwnTasksOnly ==
    [][\A o \in OpIds :
        /\ ListReturns(o) =>
                \A task \in Listed(ops'[o].result) : task.user_id = ops'[o].userId
        /\ ops[o].pc = "idle" /\ ops'[o].pc = "done" /\ ops'[o].kind = "stats" =>
                LET own == TasksOf(ops'[o].userId)
                    stats == ops'[o].result.stats
                IN
                /\ stats.total = Cardinality(own)
                /\ stats.pending = Cardinality({t \in own : t.status = "pending"})
                /\ stats.completed = Cardinality({t \in own : t.status = "completed"})
                /\ stats.overdue <=
                        Cardinality({t \in own : t.status = "pending" /\ t.due_date # UNDEF})]_vars

\* A user has listed tasks and another has got statistics, while the store
\* holds a task of another user that passes the filter of the list.
C33_Witness ==
    \E a, b \in OpIds :
        /\ Done(a) /\ ops[a].kind = "list" /\ ops[a].result.tasks # <<>>
        /\ Done(b) /\ ops[b].kind = "stats" /\ ops[b].userId # ops[a].userId
        /\ ops[b].result.stats.total > 0
        /\ Len(FilterTasksOfAnyUser(TaskValues(DOMAIN tasksMap), ops[a].userId,
                                    ops[a].payload)) > Len(ops[a].result.tasks)

\* The turns of the conversation that have ended.
Ended == {t \in DOMAIN turns : turns[t].pc = "done"}

\* C34: in a session whose turns run one at a time, after k turns (k at most
\* 25) the memory holds 2k messages: for each turn the user's message and
\* then its reply, as an assistant message; while turn k + 1 waits for the
\* model, its user message has been added after them.
C34_MemoryLogAlternates ==
    \A key \in DOMAIN memory :
        LET k == Cardinality(Ended)
            messages == memory[key].messages
            running == {t \in DOMAIN turns : turns[t].pc = "running"}
        IN
        k <= 25 /\ (running # {} => k < 25) =>
            /\ Len(messages) = 2 * k + Cardinality(running)
            /\ \A t \in Ended :
                    /\ messages[2 * t - 1].role = "user"
                    /\ messages[2 * t - 1].content = turns[t].userMessage
                    /\ messages[2 * t].role = "assistant"
                    /\ messages[2 * t].content = turns[t].message
            /\ \A t \in running :
                    /\ messages[2 * t - 1].role = "user"
                    /\ messages[2 * t - 1].content = turns[t].userMessage

\* Twenty-five turns have ended, one of them through a provider failure.
C34_Witness ==
    /\ Cardinality(Ended) = 25
    /\ \E t \in Ended : turns[t].failed
    /\ \E t \in Ended : ~turns[t].failed

\* The references of the memory under the key, none if there is no memory.
ReferencesOf(memories, key) ==
    IF key \in DOMAIN memories THEN memories[key].referencedTasks ELSE <<>>

\* C35: a memory holds at most one reference per task id; the last mentioned
\* task is null exactly when the memory holds no reference; and when a
\* reference is recorded, new or refreshed, it is the last mentioned task.
C35_LastMentionedFollowsRecord ==
    /\ [](\A key \in DOMAIN memory :
            LET refs == memory[key].referencedTasks IN
            /\ \A i, j \in 1..Len(refs) : refs[i].task_id = refs[j].task_id => i = j
            /\ GetLastMentionedTask(memory[key]) = NoReference <=> refs = <<>>)
    /\ [][\A key \in DOMAIN memory' :
            LET old == ReferencesOf(memory, key)
                new == ReferencesOf(memory', key)
            IN \A i \in 1..Len(new) :
                    i > Len(old) \/ new[i] # old[i] =>
                        GetLastMentionedTask(memory'[key]) = new[i]]_vars

\* C36: every message in the history of a chat session belongs to a turn of
\* the user the session was created for.
C36_HistoryOfOwnUserOnly ==
    \A sid \in DOMAIN chatSessions :
        \A i \in 1..Len(GetSessionHistory(sid)) :
            turns[GetSessionHistory(sid)[i].turn].userId = chatSessions[sid].user_id

\* The tasks initialize() would load from the files now on disk.
Reloaded ==
    [id \in {i \in DOMAIN disk : TaskSchemaAccepts(disk[i])} |-> TaskSchemaParse(disk[id])]

\* C37: whenever no store call is in progress, the task files on disk are the
\* tasks of the map, so that a store initialized from the disk holds the same
\* tasks.
C37_DiskAgreesWithMap ==
    (\A o \in OpIds : ops[o].pc \in {"idle", "done"}) =>
        /\ DOMAIN disk = DOMAIN tasksMap
        /\ Reloaded = tasksMap

\* C38: every chat session has a memory under its user and session id, every
\* memory has a chat session of its user under its session id, and the
\* session id a turn returns, with the turn's user, names the memory the turn
\* was recorded in.
C38_SessionsMatchMemories ==
    /\ \A sid \in DOMAIN chatSessions :
            SessionKey(chatSessions[sid].user_id, sid) \in DOMAIN memory
    /\ \A key \in DOMAIN memory :
            /\ memory[key].sessionId \in DOMAIN chatSessions
            /\ chatSessions[memory[key].sessionId].user_id = memory[key].userId
    /\ \A t \in TurnIds :
            turns[t].pc # "idle" =>
                SessionKey(turns[t].userId, turns[t].sid)
                    = SessionKey(turns[t].userId, turns[t].sessionId)

====
